---- MODULE Spec2Model ----
(***************************************************************************)
(* A model of the LS-8 emulator of src/ls8/cpu.py: the CPU object's fields *)
(* (ram, reg, pc, fl, running, ie), the instruction handlers, the ALU, the *)
(* interrupt check and the fetch-decode-execute loop of CPU.run.           *)
(*                                                                         *)
(* The emulator is Python: a register or a memory cell holds a Python      *)
(* number, not a byte.  Nothing in the code truncates to 8 bits, DIV       *)
(* yields a float, a list index may be negative (it then counts from the   *)
(* end) and an index out of range raises IndexError.  The model keeps all  *)
(* of that: a value is [n |-> numerator, d |-> denominator], d = 0 for a   *)
(* Python int and d > 0 for a float n/d, and an exception that leaves      *)
(* CPU.run is recorded in the variable exc, with the fields as the         *)
(* statements executed before the raise left them.                         *)
(***************************************************************************)
EXTENDS Integers, Sequences, FiniteSets, TLC

\* ------------------------------------------------------------------ opcodes
HLT == 1
LDI == 130
PRN == 71
LD == 131
ST == 132
PUSH == 69
POP == 70
PRA == 72

ADD == 160
SUB == 161
MUL == 162
DIV == 163
MOD == 164
INC == 101
DEC == 102
CMP == 167
AND == 168
NOT == 105
OR == 170
XOR == 171
SHL == 172
SHR == 173

CALL == 80
RET == 17
INT == 82
IRET == 19
JMP == 84
JEQ == 85
JNE == 86

SP == 7
IS == 6
IM == 5

RamSize == 256
NumRegs == 8
StackTop == 244
InterruptVector == 248

\* ------------------------------------------------------------------- bounds
\* Operand values of the generated ALU programs: 0..MaxSmall and the edge bytes.
MaxSmall == 2
\* The longest standard output kept; a print that would exceed it is not taken.
MaxOutput == 80

\* ------------------------------------------------------------ Python values
\* A Python int.
I(n) == [n |-> n, d |-> 0]

IsInt(v) == v.d = 0

Den(v) == IF v.d = 0 THEN 1 ELSE v.d

Abs(x) == IF x < 0 THEN -x ELSE x

RECURSIVE GCD(_, _)
GCD(a, b) == IF b = 0 THEN a ELSE GCD(b, a % b)

\* Floor division for a divisor of either sign.
FloorDiv(a, b) == IF b > 0 THEN a \div b ELSE (-a) \div (-b)

\* The float n/d (d # 0), in lowest terms with a positive denominator.  Floats
\* are kept as exact rationals: the rounding of IEEE doubles is not modelled.
F(n, d) ==
    LET s == IF d < 0 THEN -1 ELSE 1
        g == GCD(Abs(n), Abs(d))
    IN  [n |-> (s * n) \div g, d |-> (s * d) \div g]

\* x + y, x - y, x * y: int when both are ints, float otherwise.
PyAdd(x, y) ==
    IF IsInt(x) /\ IsInt(y) THEN I(x.n + y.n)
    ELSE F(x.n * Den(y) + y.n * Den(x), Den(x) * Den(y))

PySub(x, y) ==
    IF IsInt(x) /\ IsInt(y) THEN I(x.n - y.n)
    ELSE F(x.n * Den(y) - y.n * Den(x), Den(x) * Den(y))

PyMul(x, y) ==
    IF IsInt(x) /\ IsInt(y) THEN I(x.n * y.n)
    ELSE F(x.n * y.n, Den(x) * Den(y))

\* x / y for y # 0: true division, always a float.
PyTrueDiv(x, y) == F(x.n * Den(y), Den(x) * y.n)

\* x % y for y # 0: the sign of the result follows the divisor.
PyMod(x, y) ==
    LET q == FloorDiv(x.n * Den(y), Den(x) * y.n)
    IN  IF IsInt(x) /\ IsInt(y) THEN I(x.n - y.n * q)
        ELSE F(x.n * Den(y) - y.n * Den(x) * q, Den(x) * Den(y))

\* x == y and x < y compare numerically (4.0 == 4).
PyEq(x, y) == x.n * Den(y) = y.n * Den(x)

\* "<" with its operands exchanged: the fault C18 must notice.
PyLt_exchanged(x, y) == y.n * Den(x) < x.n * Den(y)

PyLt(x, y) == x.n * Den(y) < y.n * Den(x)

\* a & b, a | b, a ^ b, ~a on Python ints (two's complement of any width).
RECURSIVE BitAnd(_, _)
BitAnd(a, b) ==
    IF a = 0 \/ b = 0 THEN 0
    ELSE IF a = -1 THEN b
    ELSE IF b = -1 THEN a
    ELSE 2 * BitAnd(a \div 2, b \div 2) + (a % 2) * (b % 2)

RECURSIVE BitOr(_, _)
BitOr(a, b) ==
    IF a = 0 THEN b
    ELSE IF b = 0 THEN a
    ELSE IF a = -1 \/ b = -1 THEN -1
    ELSE 2 * BitOr(a \div 2, b \div 2) + (IF a % 2 = 1 \/ b % 2 = 1 THEN 1 ELSE 0)

RECURSIVE BitXor(_, _)
BitXor(a, b) ==
    IF a = 0 THEN b
    ELSE IF b = 0 THEN a
    ELSE IF a = -1 THEN -b - 1
    ELSE IF b = -1 THEN -a - 1
    ELSE 2 * BitXor(a \div 2, b \div 2) + (((a % 2) + (b % 2)) % 2)

BitNot(a) == -a - 1

RECURSIVE Pow2(_)
Pow2(k) == IF k = 0 THEN 1 ELSE 2 * Pow2(k - 1)

\* list[v] on a list of size items: the exception it raises, or "none".
IndexErr(v, size) ==
    IF ~IsInt(v) THEN "TypeError"
    ELSE IF v.n >= size \/ v.n < -size THEN "IndexError"
    ELSE "none"

\* The cell list[v] names when it raises nothing: a negative index counts
\* from the end of the list.
Index(v, size) == IF v.n < 0 THEN v.n + size ELSE v.n

\* --------------------------------------------------------------- formatting
\* Standard output is the sequence of the code points written to it.
RECURSIVE Digits(_)
Digits(n) ==
    IF n < 10 THEN <<48 + n>> ELSE Digits(n \div 10) \o <<48 + (n % 10)>>

RECURSIVE BinDigits(_)
BinDigits(n) ==
    IF n < 2 THEN <<48 + n>> ELSE BinDigits(n \div 2) \o <<48 + (n % 2)>>

HexDigit(k) == IF k < 10 THEN 48 + k ELSE 97 + (k - 10)

RECURSIVE HexDigits(_)
HexDigits(n) ==
    IF n < 16 THEN <<HexDigit(n)>>
    ELSE HexDigits(n \div 16) \o <<HexDigit(n % 16)>>

\* The digits after the point of r/d (0 <= r < d), at most k of them.
RECURSIVE FracDigits(_, _, _)
FracDigits(r, d, k) ==
    LET q == (r * 10) \div d
        r2 == (r * 10) % d
    IN  IF r2 = 0 \/ k = 1 THEN <<48 + q>>
        ELSE <<48 + q>> \o FracDigits(r2, d, k - 1)

\* str(v): "8", "-3", "3.5", "4.0".  A float whose expansion does not end is
\* cut after 16 digits, which is not always what repr() prints.
str(v) ==
    LET sign == IF v.n < 0 THEN <<45>> ELSE <<>>
        m == Abs(v.n)
    IN  IF IsInt(v) THEN sign \o Digits(m)
        ELSE sign \o Digits(m \div v.d) \o <<46>> \o FracDigits(m % v.d, v.d, 16)

\* bin(n): "0b101", "-0b101".
bin(n) == (IF n < 0 THEN <<45>> ELSE <<>>) \o <<48, 98>> \o BinDigits(Abs(n))

\* hex(n): "0xf4", "-0x1".
hex(n) == (IF n < 0 THEN <<45>> ELSE <<>>) \o <<48, 120>> \o HexDigits(Abs(n))

\* "Invalid instruction "
InvalidText ==
    <<73, 110, 118, 97, 108, 105, 100, 32,
      105, 110, 115, 116, 114, 117, 99, 116, 105, 111, 110, 32>>

\* " at "
AtText == <<32, 97, 116, 32>>

\* ----------------------------------------------------------------- the CPU
\* The fields of the CPU object; stdout and exc belong to the process: what it
\* has written to standard output and the exception that ended it ("none"
\* while it lives).  line is the statement of CPU.run's loop to run next.
VARIABLES ram, reg, pc, fl, running, ie, stdout, exc, line

\* The model's record of the run: the memory image that was loaded, the
\* instructions executed and interrupts entered last (newest first, each with
\* the fields as they stood before it), the state the last interrupt entry
\* interrupted (and whether the timer has ticked in its handler since), and
\* the last CALL.
VARIABLES image, events, frame, call

vars == <<ram, reg, pc, fl, running, ie, stdout, exc, line,
          image, events, frame, call>>

\* The CPU and its process as one value m, which the handlers transform.
Machine ==
    [ram |-> ram, reg |-> reg, pc |-> pc, fl |-> fl, running |-> running,
     ie |-> ie, out |-> stdout, exc |-> exc]

\* A raise: the fields stay as the statements before it left them.
Raise(m, e) == [m EXCEPT !.exc = e]

\* self.reg[a] for an operand a read from memory.
RegErr(a) == IndexErr(a, NumRegs)

R(a) == Index(a, NumRegs)

ram_read(m, address) == m.ram[Index(address, RamSize)]

ram_write(m, address, value) ==
    IF IndexErr(address, RamSize) # "none"
    THEN Raise(m, IndexErr(address, RamSize))
    ELSE [m EXCEPT !.ram[Index(address, RamSize)] = value]

\* handle_HLT forgetting to clear running: the fault C7 must notice.
handle_HLT_keeps_running(m) == m

handle_HLT(m) == [m EXCEPT !.running = FALSE]

handle_LDI(m, a, b) ==
    IF RegErr(a) # "none" THEN Raise(m, RegErr(a))
    ELSE [m EXCEPT !.reg[R(a)] = b]

handle_PRN(m, a) ==
    IF RegErr(a) # "none" THEN Raise(m, RegErr(a))
    ELSE [m EXCEPT !.out = @ \o str(m.reg[R(a)]) \o <<10>>]

handle_PUSH(m, a) ==
    LET m1 == [m EXCEPT !.reg[SP] = PySub(@, I(1))]
    IN  IF RegErr(a) # "none" THEN Raise(m1, RegErr(a))
        ELSE ram_write(m1, m1.reg[SP], m1.reg[R(a)])

\* handle_POP without its "self.reg[SP] += 1": the fault C4 must notice.
handle_POP_no_increment(m, a) ==
    IF IndexErr(m.reg[SP], RamSize) # "none"
    THEN Raise(m, IndexErr(m.reg[SP], RamSize))
    ELSE IF RegErr(a) # "none" THEN Raise(m, RegErr(a))
    ELSE [m EXCEPT !.reg[R(a)] = ram_read(m, m.reg[SP])]

handle_POP(m, a) ==
    IF IndexErr(m.reg[SP], RamSize) # "none"
    THEN Raise(m, IndexErr(m.reg[SP], RamSize))
    ELSE IF RegErr(a) # "none" THEN Raise(m, RegErr(a))
    ELSE LET m1 == [m EXCEPT !.reg[R(a)] = ram_read(m, m.reg[SP])]
         IN  [m1 EXCEPT !.reg[SP] = PyAdd(@, I(1))]

\* handle_CALL pushing self.pc, not self.pc + 2: the fault C3 must notice.
handle_CALL_pushes_own_address(m, a) ==
    LET m1 == [m EXCEPT !.reg[SP] = PySub(@, I(1))]
        m2 == ram_write(m1, m1.reg[SP], m1.pc)
    IN  IF m2.exc # "none" THEN m2
        ELSE IF RegErr(a) # "none" THEN Raise(m2, RegErr(a))
        ELSE [m2 EXCEPT !.pc = m2.reg[R(a)]]

handle_CALL(m, a) ==
    LET m1 == [m EXCEPT !.reg[SP] = PySub(@, I(1))]
        m2 == ram_write(m1, m1.reg[SP], PyAdd(m1.pc, I(2)))
    IN  IF m2.exc # "none" THEN m2
        ELSE IF RegErr(a) # "none" THEN Raise(m2, RegErr(a))
        ELSE [m2 EXCEPT !.pc = m2.reg[R(a)]]

handle_RET(m) ==
    IF IndexErr(m.reg[SP], RamSize) # "none"
    THEN Raise(m, IndexErr(m.reg[SP], RamSize))
    ELSE [m EXCEPT !.pc = ram_read(m, m.reg[SP]),
                   !.reg[SP] = PyAdd(@, I(1))]

handle_LD(m, a, b) ==
    IF RegErr(b) # "none" THEN Raise(m, RegErr(b))
    ELSE IF IndexErr(m.reg[R(b)], RamSize) # "none"
    THEN Raise(m, IndexErr(m.reg[R(b)], RamSize))
    ELSE IF RegErr(a) # "none" THEN Raise(m, RegErr(a))
    ELSE [m EXCEPT !.reg[R(a)] = ram_read(m, m.reg[R(b)])]

handle_JMP(m, a) ==
    IF RegErr(a) # "none" THEN Raise(m, RegErr(a))
    ELSE [m EXCEPT !.pc = m.reg[R(a)]]

\* handle_JEQ consuming the flag it tests, "self.fl &= ~0b1" on a jump: the
\* fault C11 must notice.
handle_JEQ_clears_flag(m, a) ==
    IF ~IsInt(m.fl) THEN Raise(m, "TypeError")
    ELSE IF BitAnd(m.fl.n, 1) # 0
    THEN IF RegErr(a) # "none" THEN Raise(m, RegErr(a))
         ELSE [m EXCEPT !.pc = m.reg[R(a)], !.fl = I(m.fl.n - 1)]
    ELSE [m EXCEPT !.pc = PyAdd(@, I(2))]

handle_JEQ(m, a) ==
    IF ~IsInt(m.fl) THEN Raise(m, "TypeError")
    ELSE IF BitAnd(m.fl.n, 1) # 0
    THEN IF RegErr(a) # "none" THEN Raise(m, RegErr(a))
         ELSE [m EXCEPT !.pc = m.reg[R(a)]]
    ELSE [m EXCEPT !.pc = PyAdd(@, I(2))]

\* handle_JNE testing the Greater bit, "self.fl & 0b10": the fault C5 must
\* notice.
handle_JNE_tests_greater(m, a) ==
    IF ~IsInt(m.fl) THEN Raise(m, "TypeError")
    ELSE IF ~(BitAnd(m.fl.n, 2) # 0)
    THEN IF RegErr(a) # "none" THEN Raise(m, RegErr(a))
         ELSE [m EXCEPT !.pc = m.reg[R(a)]]
    ELSE [m EXCEPT !.pc = PyAdd(@, I(2))]

handle_JNE(m, a) ==
    IF ~IsInt(m.fl) THEN Raise(m, "TypeError")
    ELSE IF ~(BitAnd(m.fl.n, 1) # 0)
    THEN IF RegErr(a) # "none" THEN Raise(m, RegErr(a))
         ELSE [m EXCEPT !.pc = m.reg[R(a)]]
    ELSE [m EXCEPT !.pc = PyAdd(@, I(2))]

\* chr() takes an int in range(0x110000); how the host encodes the character
\* on its standard output is outside the model.
handle_PRA(m, a) ==
    IF RegErr(a) # "none" THEN Raise(m, RegErr(a))
    ELSE IF ~IsInt(m.reg[R(a)]) THEN Raise(m, "TypeError")
    ELSE IF m.reg[R(a)].n < 0 \/ m.reg[R(a)].n >= 1114112
    THEN Raise(m, "ValueError")
    ELSE [m EXCEPT !.out = Append(@, m.reg[R(a)].n)]

handle_ST(m, a, b) ==
    IF RegErr(a) # "none" THEN Raise(m, RegErr(a))
    ELSE IF RegErr(b) # "none" THEN Raise(m, RegErr(b))
    ELSE ram_write(m, m.reg[R(a)], m.reg[R(b)])

\* The statements of a loop body run one after another on the machine the
\* statements before them left.  Where the model chains them, the machine so
\* far is bound once, as the one member s of the set {m}: it is then a value,
\* not an expression to work out again wherever it is used.

\* One pop of handle_IRET's loop, into register i; nothing after a raise.
PopReg(m, i) ==
    CHOOSE after \in
        {IF s.exc # "none" THEN s
         ELSE IF IndexErr(s.reg[SP], RamSize) # "none"
         THEN Raise(s, IndexErr(s.reg[SP], RamSize))
         ELSE [s EXCEPT !.reg[i] = ram_read(s, s.reg[SP]),
                        !.reg[SP] = PyAdd(@, I(1))] : s \in {m}} : TRUE

\* for i in range(6, -1, -1), from register i down.
RECURSIVE PopRegs(_, _)
PopRegs(m, i) == IF i < 0 THEN m ELSE PopRegs(PopReg(m, i), i - 1)

\* self.fl = self.ram_read(self.reg[SP]); self.reg[SP] += 1
PopFlag(m) ==
    CHOOSE after \in
        {IF s.exc # "none" THEN s
         ELSE IF IndexErr(s.reg[SP], RamSize) # "none"
         THEN Raise(s, IndexErr(s.reg[SP], RamSize))
         ELSE [s EXCEPT !.fl = ram_read(s, s.reg[SP]),
                        !.reg[SP] = PyAdd(@, I(1))] : s \in {m}} : TRUE

\* self.pc = self.ram_read(self.reg[SP]); self.reg[SP] += 1
PopPC(m) ==
    CHOOSE after \in
        {IF s.exc # "none" THEN s
         ELSE IF IndexErr(s.reg[SP], RamSize) # "none"
         THEN Raise(s, IndexErr(s.reg[SP], RamSize))
         ELSE [s EXCEPT !.pc = ram_read(s, s.reg[SP]),
                        !.reg[SP] = PyAdd(@, I(1))] : s \in {m}} : TRUE

\* handle_IRET popping the return address before the flags: the fault C1 must
\* notice.
handle_IRET_pops_pc_first(m) ==
    CHOOSE after \in
        {IF s.exc # "none" THEN s ELSE [s EXCEPT !.ie = TRUE] :
            s \in {PopFlag(PopPC(PopRegs(m, 6)))}} : TRUE

handle_IRET(m) ==
    CHOOSE after \in
        {IF s.exc # "none" THEN s ELSE [s EXCEPT !.ie = TRUE] :
            s \in {PopPC(PopFlag(PopRegs(m, 6)))}} : TRUE

\* ------------------------------------------------------------------ the ALU
\* The operand registers hold values x and y: the exception the bitwise and
\* shift operators raise on them, or "none".
BitwiseErr(x, y) == IF IsInt(x) /\ IsInt(y) THEN "none" ELSE "TypeError"

ShiftErr(x, y) ==
    IF ~(IsInt(x) /\ IsInt(y)) THEN "TypeError"
    ELSE IF y.n < 0 THEN "ValueError"
    ELSE "none"

alu(m, op, reg_a, reg_b) ==
    LET x == m.reg[R(reg_a)]
        y == m.reg[R(reg_b)]
        Both(then) ==
            IF RegErr(reg_a) # "none" THEN Raise(m, RegErr(reg_a))
            ELSE IF RegErr(reg_b) # "none" THEN Raise(m, RegErr(reg_b))
            ELSE then
        One(then) ==
            IF RegErr(reg_a) # "none" THEN Raise(m, RegErr(reg_a)) ELSE then
        Store(v) == [m EXCEPT !.reg[R(reg_a)] = v]
    IN  CASE op = ADD -> Both(Store(PyAdd(x, y)))
          [] op = SUB -> Both(Store(PySub(x, y)))
          [] op = MUL -> Both(Store(PyMul(x, y)))
          [] op = AND ->
                Both(IF BitwiseErr(x, y) # "none" THEN Raise(m, BitwiseErr(x, y))
                     ELSE Store(I(BitAnd(x.n, y.n))))
          [] op = CMP ->
                Both(IF PyEq(x, y) THEN [m EXCEPT !.fl = I(1)]
                     ELSE IF PyLt(x, y) THEN [m EXCEPT !.fl = I(4)]
                     ELSE [m EXCEPT !.fl = I(2)])
          [] op = DIV ->
                Both(IF y.n = 0 THEN Raise(m, "ZeroDivisionError")
                     ELSE IF PyEq(y, I(0))
                     THEN Raise(handle_HLT(m), "Exception")
                     ELSE Store(PyTrueDiv(x, y)))
          [] op = INC -> One(Store(PyAdd(x, I(1))))
          [] op = DEC -> One(Store(PySub(x, I(1))))
          [] op = MOD ->
                Both(IF y.n = 0 THEN Raise(m, "ZeroDivisionError")
                     ELSE IF PyEq(y, I(0))
                     THEN Raise(handle_HLT(m), "Exception")
                     ELSE Store(PyMod(x, y)))
          [] op = NOT ->
                One(IF ~IsInt(x) THEN Raise(m, "TypeError")
                    ELSE Store(I(BitNot(x.n))))
          [] op = OR ->
                Both(IF BitwiseErr(x, y) # "none" THEN Raise(m, BitwiseErr(x, y))
                     ELSE Store(I(BitOr(x.n, y.n))))
          [] op = SHL ->
                Both(IF ShiftErr(x, y) # "none" THEN Raise(m, ShiftErr(x, y))
                     ELSE m)
          [] op = SHR ->
                Both(IF ShiftErr(x, y) # "none" THEN Raise(m, ShiftErr(x, y))
                     ELSE m)
          [] op = XOR ->
                Both(IF BitwiseErr(x, y) # "none" THEN Raise(m, BitwiseErr(x, y))
                     ELSE Store(I(BitXor(x.n, y.n))))
          [] OTHER -> m

\* ------------------------------------------------------ the interrupt check
\* self.reg[SP] -= 1; self.ram_write(self.reg[SP], v)
PushValue(m, v) ==
    CHOOSE after \in
        {IF s.exc # "none" THEN s
         ELSE ram_write([s EXCEPT !.reg[SP] = PySub(@, I(1))],
                        PySub(s.reg[SP], I(1)), v) : s \in {m}} : TRUE

\* One turn of "for i in range(0, 7)": push register i.
PushReg(m, i) ==
    CHOOSE after \in {PushValue(s, s.reg[i]) : s \in {m}} : TRUE

\* for i in range(0, 7): push R0 - R6, from register i up.
RECURSIVE PushRegs(_, _)
PushRegs(m, i) == IF i > 6 THEN m ELSE PushRegs(PushReg(m, i), i + 1)

\* The entry pushing the flag before the pc: the fault C12 must notice.
SavePCAndFlags_flags_first(m) ==
    CHOOSE after \in
        {PushValue(PushValue(s, s.fl), s.pc) :
            s \in {[m EXCEPT !.ie = FALSE, !.reg[IS] = I(0)]}} : TRUE

\* self.ie = False; self.reg[IS] = 0; push pc; push flag
SavePCAndFlags(m) ==
    CHOOSE after \in
        {PushValue(PushValue(s, s.pc), s.fl) :
            s \in {[m EXCEPT !.ie = FALSE, !.reg[IS] = I(0)]}} : TRUE

\* The body of "if interrupt_happened".
InterruptEntry(m) ==
    CHOOSE after \in
        {IF s.exc # "none" THEN s
         ELSE [s EXCEPT !.pc = s.ram[InterruptVector]] :
            s \in {PushRegs(SavePCAndFlags(m), 0)}} : TRUE

\* ((masked_interrupts >> i) & 1) == 1
interrupt_happened(masked_interrupts, i) ==
    (masked_interrupts \div Pow2(i)) % 2 = 1

\* for i in range(8), from bit i on.
RECURSIVE InterruptLoop(_, _, _)
InterruptLoop(m, masked_interrupts, i) ==
    CHOOSE after \in
        {IF i > 7 \/ s.exc # "none" THEN s
         ELSE InterruptLoop(IF interrupt_happened(masked_interrupts, i)
                            THEN InterruptEntry(s) ELSE s,
                            masked_interrupts, i + 1) : s \in {m}} : TRUE

check_interrupts(m) ==
    IF BitwiseErr(m.reg[IM], m.reg[IS]) # "none"
    THEN Raise(m, BitwiseErr(m.reg[IM], m.reg[IS]))
    ELSE InterruptLoop(m, BitAnd(m.reg[IM].n, m.reg[IS].n), 0)

\* How many times the body of "if interrupt_happened" is entered by a check
\* of machine m (0 when the check raises before its loop).
Entries(m) ==
    IF BitwiseErr(m.reg[IM], m.reg[IS]) # "none" THEN 0
    ELSE Cardinality({i \in 0..7 :
            interrupt_happened(BitAnd(m.reg[IM].n, m.reg[IS].n), i)})

\* ----------------------------------------------------- fetch and decode
dispatchtable ==
    {HLT, LDI, PRN, PUSH, POP, CALL, RET, LD, JMP, PRA, ST, IRET, JEQ, JNE}

\* The exception the three reads of the fetch and the shifts of the decode
\* raise, or "none".
FetchErr(m) ==
    IF IndexErr(m.pc, RamSize) # "none" THEN IndexErr(m.pc, RamSize)
    ELSE IF IndexErr(PyAdd(m.pc, I(1)), RamSize) # "none"
    THEN IndexErr(PyAdd(m.pc, I(1)), RamSize)
    ELSE IF IndexErr(PyAdd(m.pc, I(2)), RamSize) # "none"
    THEN IndexErr(PyAdd(m.pc, I(2)), RamSize)
    ELSE IF ~IsInt(ram_read(m, m.pc)) THEN "TypeError"
    ELSE "none"

FetchIR(m) == ram_read(m, m.pc)

Fetch_operand_a(m) == ram_read(m, PyAdd(m.pc, I(1)))

Fetch_operand_b(m) == ram_read(m, PyAdd(m.pc, I(2)))

\* (IR >> 6) + 1
instructions(IR) == (IR.n \div 64) + 1

\* ((IR >> 4) & 0b1) == 1
direct_set_instructions(IR) == (IR.n \div 16) % 2 = 1

\* The decoder reading bit 4 for the ALU flag, "(IR >> 4) & 0b1": the fault C6
\* must notice.
alu_op_reads_bit_4(IR) == (IR.n \div 16) % 2 = 1

\* ((IR >> 5) & 0b1) == 1
alu_op(IR) == (IR.n \div 32) % 2 = 1

\* if not direct_set_instructions: self.pc += instructions
Advance(m) ==
    IF direct_set_instructions(FetchIR(m)) THEN m
    ELSE [m EXCEPT !.pc = PyAdd(@, I(instructions(FetchIR(m))))]

\* self.dispatchtable[IR] called with as many operands as the length says.
Dispatch(m, IR, operand_a, operand_b) ==
    CASE IR.n = HLT -> handle_HLT(m)
      [] IR.n = LDI -> handle_LDI(m, operand_a, operand_b)
      [] IR.n = PRN -> handle_PRN(m, operand_a)
      [] IR.n = PUSH -> handle_PUSH(m, operand_a)
      [] IR.n = POP -> handle_POP(m, operand_a)
      [] IR.n = CALL -> handle_CALL(m, operand_a)
      [] IR.n = RET -> handle_RET(m)
      [] IR.n = LD -> handle_LD(m, operand_a, operand_b)
      [] IR.n = JMP -> handle_JMP(m, operand_a)
      [] IR.n = PRA -> handle_PRA(m, operand_a)
      [] IR.n = ST -> handle_ST(m, operand_a, operand_b)
      [] IR.n = IRET -> handle_IRET(m)
      [] IR.n = JEQ -> handle_JEQ(m, operand_a)
      [] IR.n = JNE -> handle_JNE(m, operand_a)

\* print(f'Invalid instruction {bin(IR)} at {hex(self.pc)}')
InvalidInstruction(m, IR) ==
    [m EXCEPT !.out = @ \o InvalidText \o bin(IR.n) \o AtText \o hex(m.pc.n)
                        \o <<10>>]

\* --------------------------------------------------------- memory images
\* load() writes the instruction of each line of the program file to the
\* next address, from 0; memory is 0 elsewhere.
load(code) ==
    [address \in 0..(RamSize - 1) |->
        IF address < Len(code) THEN I(code[address + 1]) ELSE I(0)]

\* code, then zeros up to address at, then more.
Place(code, at, more) == code \o [i \in 1..(at - Len(code)) |-> 0] \o more

Operands == (0..MaxSmall) \cup {127, 128, 255}

Print8 == <<LDI, 0, 8, PRN, 0, HLT>>

TwoOperandOps == {ADD, SUB, MUL, DIV, MOD, CMP, AND, OR, XOR, SHL, SHR}

OneOperandOps == {INC, DEC, NOT}

\* LDI R0,a; LDI R1,b; op R0,R1; HLT
AluPrograms ==
    {<<LDI, 0, a, LDI, 1, b, op, 0, 1, HLT>> :
        a \in Operands, b \in Operands, op \in TwoOperandOps}
    \cup {<<LDI, 0, a, op, 0, HLT>> : a \in Operands, op \in OneOperandOps}

\* LDI R0,a; LDI R1,b; LDI R2,20; CMP R0,R1; jump R2; HLT; at 20: INC R3; HLT
JumpPrograms ==
    {Place(<<LDI, 0, a, LDI, 1, b, LDI, 2, 20, CMP, 0, 1, j, 2, HLT>>, 20,
           <<INC, 3, HLT>>) :
        a \in Operands, b \in Operands, j \in {JEQ, JNE, JMP}}
    \cup {Place(<<LDI, 2, 20, j, 2, HLT>>, 20, <<HLT>>) : j \in {JEQ, JNE}}

\* LDI R7,s; LDI Rr,v; PUSH Rr; POP Rr; HLT, and the same with the stack
\* pointer raised past the end of memory first.
StackPrograms ==
    {<<LDI, 7, s, LDI, r, v, PUSH, r, POP, r, HLT>> :
        s \in {StackTop, 0, 1, 10, 255}, r \in 0..7, v \in {5, 200}}
    \cup {<<LDI, 7, s, PUSH, 7, POP, 7, HLT>> : s \in {StackTop, 0}}
    \cup {<<LDI, 7, 255, INC, 7, LDI, 0, 5, PUSH, 0, POP, 0, HLT>>,
          <<LDI, 7, 255, INC, 7, INC, 7, LDI, 0, 5, PUSH, 0, POP, 0, HLT>>}

\* A subroutine at 16 called from 3: it returns at once, or works on the
\* stack and registers first, or overwrites the cell its return address is in.
CallPrograms ==
    {Place(<<LDI, 1, 16, CALL, 1, HLT>>, 16, <<RET>>),
     Place(<<LDI, 1, 16, CALL, 1, PRN, 0, HLT>>, 16,
           <<LDI, 0, 7, PUSH, 0, POP, 2, RET>>),
     Place(<<LDI, 1, 16, CALL, 1, HLT>>, 16,
           <<LDI, 2, StackTop - 1, LDI, 3, 32, ST, 2, 3, RET>>),
     Place(<<LDI, 1, 16, CALL, 1, HLT>>, 16, <<CALL, 1>>),
     <<LDI, 7, 64, CALL, 7, HLT>>}

\* Programs that enable the timer interrupt (or two interrupts at once), with
\* the handler at 64 and its address in the vector; IRET on nine cells the
\* program laid out at 16; the timer interrupt with the stack pointer at 1, so
\* that the frame wraps to the top of memory and over the vector; IRET on the
\* empty stack.
InterruptPrograms ==
    {Place(Place(<<LDI, 5, 1, LDI, 0, 1, LDI, 1, 2, CMP, 0, 1, HLT>>, 64,
                 <<LDI, 0, 99, CMP, 0, 0, IRET>>),
           InterruptVector, <<64>>),
     Place(Place(<<LDI, 5, 3, LDI, 6, 3, LDI, 0, 1, HLT>>, 64,
                 <<LDI, 0, 99, IRET>>),
           InterruptVector, <<64>>),
     Place(Place(<<LDI, 5, 1, LDI, 0, 1, HLT>>, 64,
                 <<LDI, 1, StackTop - 1, LDI, 2, 6, ST, 1, 2, IRET>>),
           InterruptVector, <<64>>),
     Place(<<LDI, 7, 16, IRET, HLT>>, 16, <<0, 0, 0, 0, 0, 0, 0, 7, 4>>),
     Place(<<LDI, 7, 1, LDI, 5, 1, HLT>>, InterruptVector, <<64>>),
     <<IRET>>}

\* Bytes that are no instruction, with and without the bits the decoder reads.
InvalidPrograms ==
    {<<0, HLT>>, <<INT, 0, HLT>>, <<143, 0, 0, HLT>>, <<64, 0, HLT>>,
     <<32, HLT>>, <<48, HLT>>}

\* Jumps to the last addresses of memory, where an instruction is placed.
EdgePrograms ==
    {Place(<<LDI, 0, at, JMP, 0>>, at, <<LDI>>) : at \in {253, 254, 255}}
    \cup {Place(<<LDI, 0, 253, JMP, 0>>, 253, <<HLT>>)}

\* Loads, stores and character output; a register that does not exist;
\* comparisons of a negative number and of a fraction.
MemoryPrograms ==
    {<<LDI, 0, 65, PRA, 0, LDI, 1, 128, ST, 1, 0, LD, 2, 1, PRN, 2, HLT>>,
     <<LDI, 0, 7, LDI, 1, 2, DIV, 0, 1, PRN, 0, HLT>>,
     <<LDI, 9, 1, HLT>>,
     <<LDI, 0, 0, DEC, 0, LDI, 1, 1, CMP, 0, 1, HLT>>,
     <<LDI, 0, 7, LDI, 1, 2, DIV, 0, 1, LDI, 2, 3, CMP, 0, 2, HLT>>}

Programs ==
    {Print8} \cup AluPrograms \cup JumpPrograms \cup StackPrograms
    \cup CallPrograms \cup InterruptPrograms \cup InvalidPrograms
    \cup EdgePrograms \cup MemoryPrograms

\* ------------------------------------------------------------ the run loop
NoEvent ==
    [kind |-> "none", ir |-> I(0), a |-> I(0), b |-> I(0), at |-> I(0),
     reg |-> [i \in 0..7 |-> I(0)], fl |-> I(0), ie |-> TRUE, out |-> 0]

\* What is executed now, with the fields as they stand before it.
Event(kind, IR, operand_a, operand_b) ==
    [kind |-> kind, ir |-> IR, a |-> operand_a, b |-> operand_b, at |-> pc,
     reg |-> reg, fl |-> fl, ie |-> ie, out |-> Len(stdout)]

Record(e) == <<e, events[1]>>

\* The fields become those of machine m.
Becomes(m) ==
    /\ ram' = m.ram
    /\ reg' = m.reg
    /\ pc' = m.pc
    /\ fl' = m.fl
    /\ running' = m.running
    /\ ie' = m.ie
    /\ stdout' = m.out
    /\ exc' = m.exc

\* CPU.__init__, then load().
Init ==
    /\ \E code \in Programs : /\ ram = load(code)
                              /\ image = code
    /\ reg = [i \in 0..(NumRegs - 1) |-> IF i = SP THEN I(StackTop) ELSE I(0)]
    /\ pc = I(0)
    /\ fl = I(0)
    /\ running = TRUE
    /\ ie = TRUE
    /\ stdout = <<>>
    /\ exc = "none"
    /\ line = "check"
    /\ events = <<NoEvent, NoEvent>>
    /\ frame = [valid |-> FALSE, entries |-> 0, pc |-> I(0), fl |-> I(0),
                reg |-> [i \in 0..7 |-> I(0)], ticked |-> FALSE]
    /\ call = [valid |-> FALSE, at |-> I(0), sp |-> I(0)]

\* while self.running
Looping == running /\ exc = "none"

\* if self.ie: self.check_interrupts()
CheckInterrupts ==
    /\ Looping /\ line = "check"
    /\ LET m == IF ie THEN check_interrupts(Machine) ELSE Machine
           entered == IF ie THEN Entries(Machine) ELSE 0
       IN  /\ Becomes(m)
           /\ line' = IF m.exc = "none" THEN "timer" ELSE line
           /\ events' = IF entered > 0
                        THEN Record(Event("interrupt", I(0), I(0), I(0)))
                        ELSE events
           /\ frame' = IF entered > 0
                       THEN [valid |-> TRUE, entries |-> entered, pc |-> pc,
                             fl |-> fl, reg |-> reg, ticked |-> FALSE]
                       ELSE frame
    /\ UNCHANGED <<image, call>>

\* The timer: whether a second has passed since start_time is the host
\* clock's to say. The record notes a tick that falls in an interrupt handler
\* (IE false) while bit 0 of IM is set.
TimerCheck ==
    /\ Looping /\ line = "timer"
    /\ \E elapsed \in BOOLEAN :
          /\ reg' = IF elapsed THEN [reg EXCEPT ![IS] = I(1)] ELSE reg
          /\ frame' = IF elapsed /\ ~ie /\ IsInt(reg[IM])
                          /\ BitAnd(reg[IM].n, 1) = 1
                       THEN [frame EXCEPT !.ticked = TRUE]
                       ELSE frame
    /\ line' = "fetch"
    /\ UNCHANGED <<ram, pc, fl, running, ie, stdout, exc,
                   image, events, call>>

\* The fetch or the decode raises.
FetchFault ==
    /\ Looping /\ line = "fetch"
    /\ FetchErr(Machine) # "none"
    /\ Becomes(Raise(Machine, FetchErr(Machine)))
    /\ events' = Record(Event("fault", I(0), I(0), I(0)))
    /\ UNCHANGED <<line, image, frame, call>>

\* The rest of an iteration, which ends with machine m.
Executes(kind, m) ==
    /\ Len(m.out) <= MaxOutput
    /\ Becomes(m)
    /\ line' = "check"
    /\ events' = Record(Event(kind, FetchIR(Machine), Fetch_operand_a(Machine),
                              Fetch_operand_b(Machine)))
    /\ call' = IF kind = "handler" /\ FetchIR(Machine).n = CALL
                  /\ m.exc = "none"
               THEN [valid |-> TRUE, at |-> pc, sp |-> reg[SP]]
               ELSE call
    /\ UNCHANGED <<image, frame>>

Fetched == Looping /\ line = "fetch" /\ FetchErr(Machine) = "none"

\* if alu_op: self.alu(IR, operand_a, operand_b)
Exec_ALU ==
    /\ Fetched
    /\ alu_op(FetchIR(Machine))
    /\ Executes("alu", alu(Advance(Machine), FetchIR(Machine).n,
                           Fetch_operand_a(Machine), Fetch_operand_b(Machine)))

\* elif IR in self.dispatchtable, for the handler of opcode op
Exec(op) ==
    /\ Fetched
    /\ ~alu_op(FetchIR(Machine))
    /\ FetchIR(Machine).n = op
    /\ Executes("handler", Dispatch(Advance(Machine), FetchIR(Machine),
                    Fetch_operand_a(Machine), Fetch_operand_b(Machine)))

Exec_HLT == Exec(HLT)
Exec_LDI == Exec(LDI)
Exec_PRN == Exec(PRN)
Exec_PUSH == Exec(PUSH)
Exec_POP == Exec(POP)
Exec_CALL == Exec(CALL)
Exec_RET == Exec(RET)
Exec_LD == Exec(LD)
Exec_JMP == Exec(JMP)
Exec_PRA == Exec(PRA)
Exec_ST == Exec(ST)
Exec_IRET == Exec(IRET)
Exec_JEQ == Exec(JEQ)
Exec_JNE == Exec(JNE)

\* else: the invalid-instruction report
Exec_Invalid ==
    /\ Fetched
    /\ ~alu_op(FetchIR(Machine))
    /\ FetchIR(Machine).n \notin dispatchtable
    /\ Executes("invalid", InvalidInstruction(Advance(Machine), FetchIR(Machine)))

Next ==
    \/ CheckInterrupts
    \/ TimerCheck
    \/ FetchFault
    \/ Exec_ALU
    \/ Exec_HLT
    \/ Exec_LDI
    \/ Exec_PRN
    \/ Exec_PUSH
    \/ Exec_POP
    \/ Exec_CALL
    \/ Exec_RET
    \/ Exec_LD
    \/ Exec_JMP
    \/ Exec_PRA
    \/ Exec_ST
    \/ Exec_IRET
    \/ Exec_JEQ
    \/ Exec_JNE
    \/ Exec_Invalid

Spec == Init /\ [][Next]_vars

\* The loop of CPU.run does not pause: whatever iteration can run does.
FairSpec == Spec /\ WF_vars(Next)

\* ================================================================== claims
Last == events[1]

Before == events[2]

\* The state an instruction of opcode op leaves: the loop is back at its top.
JustRan(kind, op) == line = "check" /\ Last.kind = kind /\ Last.ir = I(op)

\* The instruction before the last one, of opcode op.
RanBefore(kind, op) == Before.kind = kind /\ Before.ir = I(op)

\* Bit k of a byte, by its arithmetic.
BitSet(v, k) == (v.n \div Pow2(k)) % 2 = 1

\* ---- C1: the interrupt round trip
\* The cell k places below the stack pointer the last interrupt entry found.
SavedCell(k) == ram[Index(PySub(frame.reg[SP], I(k)), RamSize)]

\* The nine cells of the frame hold what the entry wrote to them.
FrameIntact ==
    /\ SavedCell(1) = frame.pc
    /\ SavedCell(2) = frame.fl
    /\ \A i \in 0..5 : SavedCell(3 + i) = frame.reg[i]
    /\ SavedCell(9) = I(0)

\* IRET has just run on the untouched frame of an entry for one pending bit,
\* with the stack pointer where the entry left it.
ReturnedFromInterrupt ==
    /\ JustRan("handler", IRET)
    /\ exc = "none"
    /\ frame.valid
    /\ frame.entries = 1
    /\ Last.reg[SP] = PySub(frame.reg[SP], I(9))
    /\ FrameIntact

\* C1 as stated: after the IRET, PC, Flags and every one of registers 0..6
\* (the interrupt status included) are as they were before the interrupt, the
\* stack pointer is back and IE is true.
C1_RoundTripAsStated ==
    ReturnedFromInterrupt =>
        /\ pc = frame.pc
        /\ fl = frame.fl
        /\ \A i \in 0..6 : reg[i] = frame.reg[i]
        /\ reg[SP] = frame.reg[SP]
        /\ ie

\* C1, amended: after the IRET, PC, Flags and registers 0..5 are as they were
\* before the interrupt, the stack pointer is back and IE is true; register 6
\* (the interrupt status) is 0, the value saved after the entry cleared it.
C1_RoundTrip ==
    ReturnedFromInterrupt =>
        /\ pc = frame.pc
        /\ fl = frame.fl
        /\ \A i \in 0..5 : reg[i] = frame.reg[i]
        /\ reg[IS] = I(0)
        /\ reg[SP] = frame.reg[SP]
        /\ ie

\* A handler that changed R0 and the flags has returned, and both are back.
C1_Witness ==
    /\ ReturnedFromInterrupt
    /\ frame.reg[IS] = I(1)
    /\ Last.reg[0] = I(99) /\ reg[0] = I(1)
    /\ Last.fl = I(1) /\ fl = I(0)
    /\ pc = I(6)

\* ---- C2: division and modulo by zero
\* C2: when DIV or MOD runs with the second operand register zero, the machine
\* halts (running is false), an error is signalled, the first operand register
\* is unchanged and nothing is written to standard output.
C2_DivideByZeroHalts ==
    (/\ line = "check" /\ Last.kind = "alu" /\ Last.ir.n \in {DIV, MOD}
     /\ RegErr(Last.a) = "none" /\ RegErr(Last.b) = "none"
     /\ PyEq(Last.reg[R(Last.b)], I(0)))
    => /\ ~running
       /\ exc # "none"
       /\ reg[R(Last.a)] = Last.reg[R(Last.a)]
       /\ Len(stdout) = Last.out

\* ---- C3: CALL and RET
\* The cell the last CALL wrote its return address to, and that address.
ReturnCell == ram[Index(PySub(call.sp, I(1)), RamSize)]

ReturnAddress == PyAdd(call.at, I(2))

\* RET has just run with the stack pointer at the value the last CALL left.
ReturnedAtCallDepth ==
    /\ JustRan("handler", RET)
    /\ exc = "none"
    /\ call.valid
    /\ Last.reg[SP] = PySub(call.sp, I(1))

CallPushesReturn ==
    (JustRan("handler", CALL) /\ exc = "none") =>
        /\ reg[SP] = PySub(Last.reg[SP], I(1))
        /\ ram[Index(reg[SP], RamSize)] = PyAdd(Last.at, I(2))
        /\ pc = reg[R(Last.a)]

\* C3 as stated: a CALL fetched at p pushes p + 2 and sets PC to the operand
\* register's value, and a RET run with the stack pointer back at its
\* post-CALL value sets PC to p + 2 and the stack pointer to its pre-CALL
\* value.
C3_CallRetAsStated ==
    /\ CallPushesReturn
    /\ ReturnedAtCallDepth => (pc = ReturnAddress /\ reg[SP] = call.sp)

\* C3, amended: a CALL fetched at p pushes p + 2 and leaves PC equal to the
\* operand register (as the CALL leaves it), and a RET run with the stack
\* pointer back at its post-CALL value, while the cell there still holds
\* p + 2, sets PC to p + 2 and the stack pointer to its pre-CALL value.
C3_CallRet ==
    /\ CallPushesReturn
    /\ (ReturnedAtCallDepth /\ ReturnCell = ReturnAddress)
          => (pc = ReturnAddress /\ reg[SP] = call.sp)

\* A subroutine that used the stack has returned to the byte after its CALL.
C3_Witness ==
    /\ ReturnedAtCallDepth
    /\ RanBefore("handler", POP)
    /\ call.at = I(3) /\ call.sp = I(StackTop)
    /\ pc = I(5) /\ reg[SP] = I(StackTop)

\* ---- C4: PUSH then POP
\* POP r has just run right after PUSH r.
PushThenPop ==
    /\ JustRan("handler", POP)
    /\ RanBefore("handler", PUSH)
    /\ Last.a = Before.a
    /\ exc = "none"

\* C4: PUSH r at once followed by POP r leaves register r and the stack
\* pointer as they were before the PUSH, for every register r and every stack
\* pointer with which both run; no other register changes either (but the
\* interrupt status, which the timer may set between the two).
C4_PushPopIdentity ==
    PushThenPop =>
        /\ reg[R(Last.a)] = Before.reg[R(Last.a)]
        /\ reg[SP] = Before.reg[SP]
        /\ \A i \in 0..7 : i # IS => reg[i] = Before.reg[i]

\* The stack pointer itself was pushed and popped, through the cell below 0.
C4_Witness ==
    /\ PushThenPop
    /\ Last.a = I(SP)
    /\ Before.reg[SP] = I(0) /\ Last.reg[SP] = I(-1) /\ reg[SP] = I(0)
    /\ ram[RamSize - 1] = I(-1)

\* ---- C5: conditional jumps
\* The last instruction jumped to its operand register / stepped over itself.
Jumped == pc = reg[R(Last.a)]

Stepped == pc = PyAdd(Last.at, I(2))

\* The instruction before the last was a CMP of two registers, equal or not.
ComparedEqual ==
    /\ RanBefore("alu", CMP)
    /\ RegErr(Before.a) = "none" /\ RegErr(Before.b) = "none"
    /\ PyEq(Before.reg[R(Before.a)], Before.reg[R(Before.b)])

ComparedUnequal ==
    /\ RanBefore("alu", CMP)
    /\ RegErr(Before.a) = "none" /\ RegErr(Before.b) = "none"
    /\ ~PyEq(Before.reg[R(Before.a)], Before.reg[R(Before.b)])

\* C5: after a CMP of equal values JEQ jumps and JNE steps to the next
\* instruction, after a CMP of unequal values JNE jumps and JEQ steps; and
\* whatever the flags, JEQ jumps exactly when their bit 0 is set and JNE
\* exactly when it is clear, so exactly one of the two jumps.
C5_JumpsFollowCompare ==
    /\ (JustRan("handler", JEQ) /\ exc = "none") =>
          /\ ComparedEqual => Jumped
          /\ ComparedUnequal => Stepped
          /\ IF BitSet(Last.fl, 0) THEN Jumped ELSE Stepped
    /\ (JustRan("handler", JNE) /\ exc = "none") =>
          /\ ComparedEqual => Stepped
          /\ ComparedUnequal => Jumped
          /\ IF BitSet(Last.fl, 0) THEN Stepped ELSE Jumped

\* JNE has jumped after a CMP of 2 with 127 (flags: Less).
C5_Witness ==
    /\ JustRan("handler", JNE) /\ exc = "none"
    /\ ComparedUnequal
    /\ Last.fl = I(4)
    /\ Last.at = I(12) /\ pc = I(20)

\* ---- C6: routing by bit 5
\* C6: in every iteration that dispatches, the ALU is what runs exactly when
\* bit 5 of the fetched byte is set; with bit 5 clear it is a handler of the
\* table, for a byte in the table, and the invalid-instruction report
\* otherwise.
C6_RoutedByAluBit ==
    (line = "check" /\ Last.kind \in {"alu", "handler", "invalid"}) =>
        /\ Last.kind = "alu" <=> BitAnd(Last.ir.n, 32) = 32
        /\ Last.kind = "handler" <=>
              (BitAnd(Last.ir.n, 32) = 0 /\ Last.ir.n \in dispatchtable)

\* A byte with bit 5 set that names no ALU operation went to the ALU.
C6_Witness == JustRan("alu", 32) /\ exc = "none" /\ pc = I(1)

\* ---- C7: LDI R0,8; PRN R0; HLT
\* C7: from the initial state with 0x82,0x00,0x08,0x47,0x00,0x01 at address 0,
\* the loop writes "8" and a newline, nothing else, and then ends with running
\* false, whatever the timer does.
C7_Print8Terminates ==
    (image = Print8) =>
        /\ [](stdout \in {<<>>, <<56>>, <<56, 10>>} /\ exc = "none")
        /\ <>[](~running /\ stdout = <<56, 10>>)

\* The run has ended after a timer tick.
C7_Witness ==
    /\ image = Print8
    /\ ~running
    /\ stdout = <<56, 10>>
    /\ reg[IS] = I(1)
    /\ reg[0] = I(8)

\* ---- C8: 8-bit arithmetic
Byte(v) == IsInt(v) /\ v.n \in 0..255

\* The result of ALU operation op on bytes a and b, kept to 8 bits.
Wrapped(op, a, b) ==
    CASE op = ADD -> (a + b) % 256
      [] op = SUB -> (a - b) % 256
      [] op = MUL -> (a * b) % 256
      [] op = INC -> (a + 1) % 256
      [] op = DEC -> (a - 1) % 256

\* C8: after ADD, SUB, MUL, INC or DEC on registers holding bytes a and b the
\* first operand register holds the result modulo 256.
C8_ArithmeticWraps ==
    (/\ line = "check" /\ Last.kind = "alu" /\ exc = "none"
     /\ Last.ir.n \in {ADD, SUB, MUL, INC, DEC}
     /\ RegErr(Last.a) = "none" /\ Byte(Last.reg[R(Last.a)])
     /\ Last.ir.n \in {ADD, SUB, MUL} =>
            (RegErr(Last.b) = "none" /\ Byte(Last.reg[R(Last.b)])))
    => reg[R(Last.a)] =
          I(Wrapped(Last.ir.n, Last.reg[R(Last.a)].n,
                    IF Last.ir.n \in {ADD, SUB, MUL}
                    THEN Last.reg[R(Last.b)].n ELSE 0))

\* ---- C9: unrecognized opcodes
\* The iteration about to run fetches a byte with bit 5 clear that is not in
\* the handler table.
FetchesUnrecognized ==
    /\ Fetched
    /\ BitAnd(FetchIR(Machine).n, 32) = 0
    /\ FetchIR(Machine).n \notin dispatchtable

\* C9: an iteration that fetches an unrecognized byte leaves the machine
\* running, changes no register, memory cell or flag, and ends with PC at the
\* fetch address plus the instruction length (the two high bits plus one).
C9_InvalidSteppedOver ==
    [][(FetchesUnrecognized /\ line' = "check") =>
          /\ running' /\ exc' = "none"
          /\ reg' = reg /\ ram' = ram /\ fl' = fl
          /\ pc' = PyAdd(pc, I((FetchIR(Machine).n \div 64) + 1))]_vars

\* ---- C10: PC is an address
\* C10: in every reachable state in which the loop is running, PC is a
\* memory address, 0..255.
C10_PCValid == Looping => (IsInt(pc) /\ pc.n \in 0..(RamSize - 1))

\* ---- C11: what changes the flags
\* The instruction the loop is about to execute has opcode op.
Executing(op) == Fetched /\ FetchIR(Machine) = I(op)

\* The cell k places above the stack pointer.
StackCell(k) == ram[Index(PyAdd(reg[SP], I(k)), RamSize)]

\* C11 as stated: no step other than the execution of CMP changes FL, and FL
\* is 0, 1, 2 or 4 in every reachable state.
C11_OnlyCompareAsStated ==
    /\ [][fl' # fl => Executing(CMP)]_vars
    /\ [](fl \in {I(0), I(1), I(2), I(4)})

\* C11, amended: a step that changes FL is the execution of CMP, which leaves
\* FL at 1, 2 or 4, or the execution of IRET, which leaves FL at the value of
\* the eighth cell it pops; every other ALU operation and handler, the
\* interrupt entry, the timer check and the invalid-instruction report leave
\* FL as it is.
C11_OnlyCompareAndIRET ==
    [][fl' # fl =>
        \/ Executing(CMP) /\ fl' \in {I(1), I(2), I(4)}
        \/ Executing(IRET) /\ fl' = StackCell(7)]_vars

\* IRET has popped 7 into FL, which was 0: no CMP leaves that value.
C11_Witness ==
    /\ JustRan("handler", IRET)
    /\ exc = "none"
    /\ Last.fl = I(0)
    /\ fl = I(7)

\* ---- C12: the order of the interrupt entry
\* The interrupt check has just run to its end and entered once: exactly one
\* of the eight bits it tests was set in IM & IS.
JustEntered ==
    /\ line = "timer"
    /\ Last.kind = "interrupt"
    /\ exc = "none"
    /\ frame.entries = 1

\* C12: after an interrupt check that found IE true and one bit of IM & IS
\* set, with the stack pointer at s: IE is false, register 6 is 0, the cell at
\* s-1 holds the PC and the cell at s-2 the flags the check found, the cell at
\* s-3-i holds register i (0 for register 6, which was cleared first), the
\* stack pointer is s-9, PC is the value of the cell at 0xF8 and registers
\* 0..5 are as they were.
C12_EntryOrder ==
    JustEntered =>
        /\ ~ie
        /\ reg[IS] = I(0)
        /\ SavedCell(1) = frame.pc
        /\ SavedCell(2) = frame.fl
        /\ \A i \in 0..5 : SavedCell(3 + i) = frame.reg[i]
        /\ SavedCell(9) = I(0)
        /\ reg[SP] = PySub(frame.reg[SP], I(9))
        /\ pc = ram[InterruptVector]
        /\ \A i \in 0..5 : reg[i] = frame.reg[i]

\* The timer interrupt has been entered after CMP R0,R1 left Less in FL: PC
\* 12, flags 4 and registers 1 and 2 are in the frame and PC is the handler's.
C12_Witness ==
    /\ JustEntered
    /\ frame.pc = I(12) /\ frame.fl = I(4)
    /\ frame.reg[0] = I(1) /\ frame.reg[1] = I(2) /\ frame.reg[IS] = I(1)
    /\ reg[SP] = I(StackTop - 9)
    /\ ram[StackTop - 1] = I(12) /\ ram[StackTop - 2] = I(4)
    /\ pc = I(64)

\* ---- C13: interrupts do not nest
\* C13: a check that finds IE false enters no interrupt (it pushes nothing
\* and leaves PC alone), and a check that finds IE true enters at most once,
\* since its first entry clears IE: between an entry and the next IRET no
\* second frame is pushed.
C13_NoNestedEntry ==
    [][(line = "check" /\ Looping) =>
        /\ ~ie => (ram' = ram /\ reg' = reg /\ pc' = pc /\ frame' = frame)
        /\ ie => (frame' = frame \/ frame'.entries = 1)]_vars

\* ---- C14: registers are bytes
\* C14: in every reachable state each of registers 0..7, the stack pointer
\* included, holds an integer in 0..255.
C14_RegistersAreBytes == \A i \in 0..(NumRegs - 1) : Byte(reg[i])

\* ---- C15: the speculative operand fetch
\* C15: whenever the loop is about to fetch, the three addresses it reads, PC,
\* PC + 1 and PC + 2, are all in 0..255.
C15_FetchInRange ==
    (Looping /\ line = "fetch") =>
        \A k \in 0..2 : Byte(pc) /\ (pc.n + k) \in 0..(RamSize - 1)

\* ---- C16: the bitwise operations
\* a shifted left by b places, kept to 8 bits, and a shifted right by b.
ShiftedLeft(a, b) == IF b >= 8 THEN 0 ELSE (a * Pow2(b)) % 256

ShiftedRight(a, b) == IF b >= 8 THEN 0 ELSE a \div Pow2(b)

\* The 8-bit result of bitwise operation op on bytes a and b.
BitwiseResult(op, a, b) ==
    CASE op = AND -> BitAnd(a, b)
      [] op = OR -> BitOr(a, b)
      [] op = XOR -> BitXor(a, b)
      [] op = NOT -> 255 - a
      [] op = SHL -> ShiftedLeft(a, b)
      [] op = SHR -> ShiftedRight(a, b)

\* A bitwise operation has just run on registers that held bytes.
RanBitwise ==
    /\ line = "check" /\ Last.kind = "alu"
    /\ Last.ir.n \in {AND, OR, XOR, NOT, SHL, SHR}
    /\ RegErr(Last.a) = "none" /\ Byte(Last.reg[R(Last.a)])
    /\ (Last.ir.n # NOT) =>
            (RegErr(Last.b) = "none" /\ Byte(Last.reg[R(Last.b)]))

\* C16: after AND, OR, XOR, NOT, SHL or SHR on registers holding bytes a and
\* b the first operand register holds a AND b, a OR b, a XOR b, 255 - a,
\* (a shifted left by b) mod 256 or a shifted right by b, and the second
\* operand register, when it is another register, is as it was.
C16_BitwiseStores ==
    RanBitwise =>
        /\ exc = "none"
        /\ reg[R(Last.a)] =
              I(BitwiseResult(Last.ir.n, Last.reg[R(Last.a)].n,
                              IF Last.ir.n = NOT THEN 0
                              ELSE Last.reg[R(Last.b)].n))
        /\ (Last.ir.n # NOT /\ R(Last.b) # R(Last.a)) =>
                reg[R(Last.b)] = Last.reg[R(Last.b)]

\* ---- C17: DIV and MOD with a non-zero divisor
\* C17: after DIV on registers holding bytes a and b, b not 0, the first
\* operand register holds the integer floor quotient of a by b, and after MOD
\* the remainder; the machine keeps running.
C17_IntegerDivision ==
    (/\ line = "check" /\ Last.kind = "alu"
     /\ Last.ir.n \in {DIV, MOD}
     /\ RegErr(Last.a) = "none" /\ RegErr(Last.b) = "none"
     /\ Byte(Last.reg[R(Last.a)]) /\ Byte(Last.reg[R(Last.b)])
     /\ Last.reg[R(Last.b)].n # 0)
    => /\ running /\ exc = "none"
       /\ reg[R(Last.a)] =
             IF Last.ir.n = DIV
             THEN I(Last.reg[R(Last.a)].n \div Last.reg[R(Last.b)].n)
             ELSE I(Last.reg[R(Last.a)].n % Last.reg[R(Last.b)].n)

\* ---- C18: CMP
\* The operand registers of the instruction about to execute.
OperandA == reg[R(Fetch_operand_a(Machine))]

OperandB == reg[R(Fetch_operand_b(Machine))]

\* The order of two register values as numbers: -1, 0 or 1.
Order(x, y) ==
    IF x.n * Den(y) = y.n * Den(x) THEN 0
    ELSE IF x.n * Den(y) > y.n * Den(x) THEN 1
    ELSE 0 - 1

\* C18: the execution of CMP on registers holding a and b leaves FL at 1 if
\* a = b, at 2 if a > b and at 4 if a < b, and leaves all eight registers and
\* all of memory as they were.
C18_CompareSetsOneFlag ==
    [][(Executing(CMP) /\ exc' = "none") =>
          /\ fl' = I(CASE Order(OperandA, OperandB) = 0 -> 1
                       [] Order(OperandA, OperandB) = 1 -> 2
                       [] OTHER -> 4)
          /\ reg' = reg
          /\ ram' = ram]_vars

\* CMP R0,R1 has run on 255 and 1 with FL at 0, and left Greater.
C18_Witness ==
    /\ JustRan("alu", CMP)
    /\ exc = "none"
    /\ Last.reg[R(Last.a)] = I(255) /\ Last.reg[R(Last.b)] = I(1)
    /\ Last.fl = I(0)
    /\ fl = I(2)
    /\ reg = Last.reg

\* ---- C19: one frame for one interrupt check
\* The cells of memory a step writes a new value to.
Written == {address \in 0..(RamSize - 1) : ram'[address] # ram[address]}

\* C19: an interrupt check that runs to its end, whatever IM and IS hold,
\* lowers the stack pointer by 0 or by 9 and writes at most nine cells.
C19_OneFramePerCheck ==
    [][(Looping /\ line = "check" /\ exc' = "none") =>
          /\ reg'[SP] \in {reg[SP], PySub(reg[SP], I(9))}
          /\ Cardinality(Written) <= 9]_vars

\* ---- C20: a timer tick in a handler
\* IRET has just ended a handler in which the timer ticked while bit 0 of IM
\* was set, and bit 0 of IS was still set when the IRET began.
ReturnedWithTickPending ==
    /\ JustRan("handler", IRET)
    /\ exc = "none"
    /\ ~Last.ie
    /\ frame.ticked
    /\ Byte(Last.reg[IS]) /\ BitSet(Last.reg[IS], 0)

\* C20: when the timer has set bit 0 of IS in a handler (IE false, bit 0 of
\* IM set), bit 0 of IS is still set right after the handler's IRET, so that
\* a later interrupt check can deliver the interrupt.
C20_TickNotLost ==
    ReturnedWithTickPending => (Byte(reg[IS]) /\ BitSet(reg[IS], 0))

====
